---- MODULE Spec2Model ----
(***************************************************************************)
(* Model of src/app.py: the Streamlit page of the Waste Processing Zone    *)
(* optimizer.  One action is one execution of the page script (Streamlit   *)
(* reruns the whole script on every interaction).                          *)
(*                                                                         *)
(* Units.  The decimals typed into the form and read from the files lie on *)
(* a grid whose step is 0.00005 degree, so that buffer_distance = 0.0001   *)
(* degree is 2 grid steps.  Coordinates are integers in units of           *)
(* 1/MeanScale grid step, MeanScale the least common multiple of the row   *)
(* counts, so that the mean of a column of up to MaxZones typed values is  *)
(* a whole number of units.  A coordinate the program holds is a float64:  *)
(* the pair <<k, e>> of its coordinate k in units and of its difference e  *)
(* from the decimal of k, counted in 2^-62 of a unit.  A typed decimal is  *)
(* held as the nearest float64; the column means that start the search are *)
(* rounded as pandas computes them (the sum row by row, then the division) *)
(* and need not be the float64 of any typed decimal.  A point is a pair    *)
(* <<x, y>> of coordinates in units, a point the program holds a pair of   *)
(* float64 coordinates.  Waste is in whole tons; Q = waste/1000 and        *)
(* vehicle_capacity = 5/1000 are both kept in thousandths, and so is       *)
(* cost_per_km = 20/1000; the trip count is the ceiling of the float64     *)
(* quotient.  Distances in costs are fixed point with SqrtScale steps per  *)
(* unit (np.sqrt truncated), so a cost is counted in steps of              *)
(* 0.001 / (UnitsPerDegree * SqrtScale) currency units and a cost value is *)
(* the triple <<whole currency units, remaining thousandths of a unit of   *)
(* length, remaining steps>>.                                              *)
(***************************************************************************)
EXTENDS Integers, Sequences, FiniteSets, TLC

VARIABLES
    geo_cache,      \* st.cache_resource entry of load_geographic_data, or NotLoaded
    session_state,  \* st.session_state: a function from the keys present to values
    last,           \* what the latest execution of the script did (history)
    probe           \* inputs and outputs of one evaluation of the helpers

vars == <<geo_cache, session_state, last, probe>>

(* ------------------------------ bounds -------------------------------- *)
GridMax == 6
MaxZones == 3
SqrtScale == 100

RECURSIVE Gcd(_, _)
Gcd(a, b) == IF b = 0 THEN a ELSE Gcd(b, a % b)

\* the least common multiple of 1..n
RECURSIVE LcmUpTo(_)
LcmUpTo(n) ==
    IF n = 1 THEN 1 ELSE (LcmUpTo(n - 1) * n) \div Gcd(LcmUpTo(n - 1), n)

\* units per grid step, and the coordinate of grid line c
MeanScale == LcmUpTo(MaxZones)
At(c) == MeanScale * c

\* the grid lines of the country, and those a site or a trial point can be on
Coords == 0..GridMax
Lines == 0..(GridMax + 4)
Grid == {<<At(x), At(y)>> : x \in Coords, y \in Coords}

(* ------------------------- program constants -------------------------- *)
\* buffer_distance in grid steps
buffer_distance == 2
vehicle_capacity == 5
cost_per_km == 20
PenaltyUnits == 1000000000

\* units per degree (a grid step is 0.00005 degree), and cost steps per
\* thousandth of a unit of length
UnitsPerDegree == 20 * 1000 * MeanScale
StepsPerLength == 1000 * SqrtScale

(* ------------------------------ geometry ------------------------------ *)
\* A polygon is an axis-aligned rectangle given by two corners, or empty.
Rect(x1, y1, x2, y2) == [empty |-> FALSE, x1 |-> x1, y1 |-> y1, x2 |-> x2, y2 |-> y2]
EmptyGeom == [empty |-> TRUE, x1 |-> 0, y1 |-> 0, x2 |-> 0, y2 |-> 0]

Max2(a, b) == IF a >= b THEN a ELSE b
Min2(a, b) == IF a <= b THEN a ELSE b

\* polygon.intersection(polygon); a result without area is kept out of the
\* configurations below (GeoConfigs), so it is returned as the empty geometry
Intersection(a, b) ==
    IF a.empty \/ b.empty THEN EmptyGeom
    ELSE LET x1 == Max2(a.x1, b.x1)
             y1 == Max2(a.y1, b.y1)
             x2 == Min2(a.x2, b.x2)
             y2 == Min2(a.y2, b.y2)
         IN  IF x1 < x2 /\ y1 < y2 THEN Rect(x1, y1, x2, y2) ELSE EmptyGeom

(* ------------------------- float64 coordinates ----------------------- *)
\* 2^n modulo m
RECURSIVE PowerOfTwoMod(_, _)
PowerOfTwoMod(n, m) == IF n = 0 THEN 1 % m ELSE (2 * PowerOfTwoMod(n - 1, m)) % m

\* the spacing of the float64 values around coordinate k >= MeanScale: the
\* largest 625 * MeanScale * 2^i not above 1024 * k (53 significant bits)
RECURSIVE UlpFrom(_, _)
UlpFrom(k, u) == IF 2 * u <= 1024 * k THEN UlpFrom(k, 2 * u) ELSE u
Ulp(k) == UlpFrom(k, 625 * MeanScale)

\* the function f as a table, its values computed once
Stored(f) == f @@ <<>>

\* one unit (2^62) modulo m, for the moduli in use: multiples of a spacing
\* by a number of rows, and their doubles
GridUnitMod ==
    Stored([m \in {n * Ulp(k) : n \in 1..(2 * MaxZones),
                                k \in MeanScale..(MaxZones * At(GridMax + 4))}
               |-> PowerOfTwoMod(62, m)])

\* The float64 of the quotient of the value <<k, e>> by n, n a divisor of
\* k: its difference from the decimal of k / n.  Round to nearest, ties to
\* even; rem is the value modulo n spacings of the quotient.
RoundQuotient(k, e, n) ==
    IF k = 0 THEN 0
    ELSE LET m == n * Ulp(k \div n)
             rem == (k * GridUnitMod[m] + e) % m
             even == (k * GridUnitMod[2 * m] + e - rem) % (2 * m) = 0
         IN  IF 2 * rem < m \/ (2 * rem = m /\ even)
             THEN (e - rem) \div n
             ELSE (e - rem) \div n + Ulp(k \div n)

\* the float64 of a typed decimal, for every grid line in use
CoordErrTable == Stored([k \in {At(c) : c \in Lines} |-> RoundQuotient(k, 0, 1)])
CoordErr(k) == CoordErrTable[k]
Typed(k) == <<k, CoordErr(k)>>

\* the point the program holds for the typed point p, and the point in
\* units of a point it holds
Point(p) == <<Typed(p[1]), Typed(p[2])>>
GridOf(h) == <<h[1][1], h[2][1]>>

\* a < b on float64 coordinates
Below(a, b) == a[1] < b[1] \/ (a[1] = b[1] /\ a[2] < b[2])

\* the closed point set of a polygon (interior and boundary)
Covers(poly, h) ==
    /\ ~poly.empty
    /\ ~Below(h[1], Typed(poly.x1)) /\ ~Below(Typed(poly.x2), h[1])
    /\ ~Below(h[2], Typed(poly.y1)) /\ ~Below(Typed(poly.y2), h[2])

\* shapely: polygon.contains(Point) is TRUE only for a point of the interior
PolygonContains(poly, h) ==
    /\ ~poly.empty
    /\ Below(Typed(poly.x1), h[1]) /\ Below(h[1], Typed(poly.x2))
    /\ Below(Typed(poly.y1), h[2]) /\ Below(h[2], Typed(poly.y2))

SeqToSet(s) == {s[i] : i \in DOMAIN s}

\* the typed point on grid lines x and y, and the rectangle between grid lines
OnLines(x, y) == <<At(x), At(y)>>
RectOnLines(x1, y1, x2, y2) == Rect(At(x1), At(y1), At(x2), At(y2))

\* load_geographic_data: what the files hold.  water is the polygon layer,
\* protected the point layer, sensitive the point layer of sensitive sites.
GeoFiles ==
    { [country |-> RectOnLines(0, 0, GridMax, GridMax), water |-> EmptyGeom,
       protected |-> {}, sensitive |-> <<>>],
      [country |-> RectOnLines(0, 0, GridMax, GridMax),
       water |-> RectOnLines(0, 0, GridMax, GridMax),
       protected |-> {}, sensitive |-> <<>>],
      [country |-> RectOnLines(0, 0, GridMax, GridMax), water |-> EmptyGeom,
       protected |-> {}, sensitive |-> << OnLines(3, 3) >>],
      [country |-> RectOnLines(1, 1, GridMax - 1, GridMax - 1),
       water |-> RectOnLines(3, 1, GridMax + 1, 3),
       protected |-> { OnLines(2, 2), OnLines(3, 5) },
       sensitive |-> << OnLines(2, 4), OnLines(5, 2) >>] }

\* the tuple load_geographic_data returns: the exclusion layers are unioned
\* and clipped to the country polygon; the sensitive points are one of the
\* exclusion layers and also the buffer points
load_geographic_data(files) ==
    LET points == files.protected \cup SeqToSet(files.sensitive)
        area == Intersection(files.water, files.country)
    IN  [sri_lanka_polygon |-> files.country,
         exclusion_area |-> area,
         exclusion_points |->
             {q \in points : Covers(files.country, Point(q)) /\ ~Covers(area, Point(q))},
         sensitive_coords |-> files.sensitive,
         buffer_distance |-> At(buffer_distance)]

GeoConfigs == {load_geographic_data(f) : f \in GeoFiles}

(* --------------------------- helper functions ------------------------- *)
\* the helpers take the point (x, y) the program holds
inside_sri_lanka_covers(g, h) == Covers(g.sri_lanka_polygon, h)
inside_sri_lanka(g, h) == PolygonContains(g.sri_lanka_polygon, h)

\* exclusion_clipped.contains(Point): the interior of the clipped area, or
\* one of the points of the union that lie outside that area
ExclusionContains(g, h) ==
    PolygonContains(g.exclusion_area, h) \/ \E q \in g.exclusion_points : h = Point(q)

outside_exclusion(g, h) == ~ExclusionContains(g, h)

Dist2(p, q) == (p[1] - q[1]) * (p[1] - q[1]) + (p[2] - q[2]) * (p[2] - q[2])

\* np.sqrt((x - xf)**2 + (y - yf)**2) against buffer_distance: negative,
\* zero or positive as the computed distance is below, equal to or above
\* the float64 of 0.0001, for the held point h and the sensitive point b.
\* The distance in units decides; at exactly buffer_distance the float64
\* differences along the offset decide (what they leave undecided is below
\* the resolution of the computed distance).
DistanceVsBuffer(g, h, b) ==
    LET dx == h[1][1] - b[1]
        dy == h[2][1] - b[2]
        ex == h[1][2] - CoordErr(b[1])
        ey == h[2][2] - CoordErr(b[2])
        first == Dist2(GridOf(h), b) - g.buffer_distance * g.buffer_distance
        second == dx * ex + dy * ey - g.buffer_distance * CoordErr(g.buffer_distance)
    IN  IF first # 0 THEN first ELSE second

\* if sqrt(...) < buffer_distance: return False
respect_buffer_le(g, h) ==
    \A i \in DOMAIN g.sensitive_coords :
        ~(DistanceVsBuffer(g, h, g.sensitive_coords[i]) <= 0)
respect_buffer(g, h) ==
    \A i \in DOMAIN g.sensitive_coords :
        ~(DistanceVsBuffer(g, h, g.sensitive_coords[i]) < 0)

is_feasible_or(g, h) ==
    inside_sri_lanka(g, h) /\ (outside_exclusion(g, h) \/ respect_buffer(g, h))
is_feasible(g, h) ==
    inside_sri_lanka(g, h) /\ outside_exclusion(g, h) /\ respect_buffer(g, h)

(* --------------------------- objective function ----------------------- *)
\* floor of the square root, by bisection on [lo, hi]
RECURSIVE ISqrtIn(_, _, _)
ISqrtIn(n, lo, hi) ==
    IF lo >= hi THEN lo
    ELSE LET mid == (lo + hi + 1) \div 2
         IN  IF mid * mid <= n THEN ISqrtIn(n, mid, hi) ELSE ISqrtIn(n, lo, mid - 1)

ISqrt(n) == ISqrtIn(n, 0, 2 * At(GridMax + 4) * SqrtScale)

\* np.sqrt((xi - x)**2 + (yi - y)**2), in steps of 1/SqrtScale unit
Distance(p, q) == ISqrt(Dist2(p, q) * SqrtScale * SqrtScale)

\* df['Q'] = df['Waste Quantity'] / 1000, in thousandths
Q(row) == row.waste

\* df = pd.DataFrame(zone_data) with the column Q of line 125: one row per
\* zone with its name, coordinates, waste and Q
DataFrame(zone_data) ==
    [i \in DOMAIN zone_data |->
        [name |-> zone_data[i].name, lon |-> zone_data[i].lon, lat |-> zone_data[i].lat,
         waste |-> zone_data[i].waste, Q |-> Q(zone_data[i])]]

\* The whole tons up to the form's default of 2000 whose float64 quotient
\* (waste/1000) / (5/1000) lies just above the exact multiple of 5
FloatQuotientAbove == {35, 70, 140, 280, 555, 560, 1110, 1120, 1235, 1245}

\* np.ceil(Qi / vehicle_capacity) of the float64 quotient: the exact
\* ceiling, and one trip more where the quotient is rounded above an integer
Trips(row) ==
    (row.Q + vehicle_capacity - 1) \div vehicle_capacity
        + (IF row.Q \in FloatQuotientAbove THEN 1 ELSE 0)

SiteOf(row) == <<row.lon, row.lat>>

RowCost_neg(p, row) == cost_per_km * Trips(row) * (0 - Distance(SiteOf(row), p))
RowCost(p, row) == cost_per_km * Trips(row) * Distance(SiteOf(row), p)

RECURSIVE TotalCost(_, _)
TotalCost(p, df) ==
    IF df = <<>> THEN 0 ELSE RowCost(p, Head(df)) + TotalCost(p, Tail(df))

\* a number of cost steps as a cost value
Penalty == <<PenaltyUnits, 0, 0>>
CostValue(steps) ==
    <<(steps \div StepsPerLength) \div UnitsPerDegree,
      (steps \div StepsPerLength) % UnitsPerDegree,
      steps % StepsPerLength>>

CostLeq(a, b) ==
    \/ a[1] < b[1]
    \/ a[1] = b[1] /\ a[2] < b[2]
    \/ a[1] = b[1] /\ a[2] = b[2] /\ a[3] <= b[3]
CostLess(a, b) == ~CostLeq(b, a)

\* objective(x) for the held point h; the cost is taken at its point in units
objective_add(g, df, h) ==
    IF ~is_feasible(g, h)
    THEN <<PenaltyUnits + CostValue(TotalCost(GridOf(h), df))[1],
           CostValue(TotalCost(GridOf(h), df))[2],
           CostValue(TotalCost(GridOf(h), df))[3]>>
    ELSE CostValue(TotalCost(GridOf(h), df))
objective(g, df, h) ==
    IF ~is_feasible(g, h) THEN Penalty ELSE CostValue(TotalCost(GridOf(h), df))

(* ------------------------------ optimization -------------------------- *)
\* a row of the form: the zone's name, a typed site on grid lines x and y,
\* and its waste
Row(name, x, y, w) == [name |-> name, lon |-> At(x), lat |-> At(y), waste |-> w]

\* st.text_input("Name", value=f"Zone {i+1}"): the default name of the i-th
\* zone of the form, and the names typed instead of it
DefaultNames ==
    << "Zone 1", "Zone 2", "Zone 3", "Zone 4", "Zone 5", "Zone 6", "Zone 7",
       "Zone 8", "Zone 9", "Zone 10", "Zone 11", "Zone 12", "Zone 13", "Zone 14",
       "Zone 15", "Zone 16", "Zone 17", "Zone 18", "Zone 19", "Zone 20" >>
DefaultName(i) == DefaultNames[i]
TypedNames == {"Depot"}
\* the names the i-th zone can have: the first zone can be renamed
Names(i) == IF i = 1 THEN {DefaultName(i)} \cup TypedNames ELSE {DefaultName(i)}

\* the rows the helper evaluations take
Wastes == {0, 3, 35}
SitePositions == { <<1, 3>>, <<5, 3>>, <<3, 5>>, <<3, 9>> }
SiteRows == {Row(DefaultName(1), s[1], s[2], w) : s \in SitePositions, w \in Wastes}

\* The numbers a row of a run can hold: grid lines of the site, and waste.
\* Three rows on grid line 9 (0.00045) have a float64 mean one spacing
\* above the float64 of 0.00045.
ZoneSites == { <<1, 3, 3>>, <<5, 3, 3>>, <<3, 9, 35>> }
\* the i-th row of a run
ZoneRows(i) == {Row(nm, s[1], s[2], s[3]) : nm \in Names(i), s \in ZoneSites}

RECURSIVE SumOf(_, _)
SumOf(df, col) == IF df = <<>> THEN 0 ELSE Head(df)[col] + SumOf(Tail(df), col)

\* zone_data, the demand sites the form can hold: number_input n >= 1, one
\* row per zone, in the order of the form
RECURSIVE RowsUpTo(_)
RowsUpTo(n) ==
    IF n = 0 THEN { <<>> }
    ELSE {Append(zd, row) : zd \in RowsUpTo(n - 1), row \in ZoneRows(n)}
ZoneInputs == UNION {RowsUpTo(n) : n \in 1..MaxZones}

\* the same over every site position, for the evaluations at a start
StartRows == {Row(DefaultName(1), s[1], s[2], 3) : s \in SitePositions}
SiteInputs == UNION {[1..n -> StartRows] : n \in 1..MaxZones}

Column(df, col) == {df[i][col] : i \in DOMAIN df}
ColMin(df, col) == CHOOSE v \in Column(df, col) : \A w \in Column(df, col) : v <= w
ColMax(df, col) == CHOOSE v \in Column(df, col) : \A w \in Column(df, col) : v >= w
\* the float64 sum of a column, added in order from the first row
RECURSIVE ColSum(_, _)
ColSum(df, col) ==
    IF Len(df) = 1 THEN Typed(df[1][col])
    ELSE LET s == ColSum(SubSeq(df, 1, Len(df) - 1), col)
             v == Typed(df[Len(df)][col])
         IN  <<s[1] + v[1], RoundQuotient(s[1] + v[1], s[2] + v[2], 1)>>

\* df[col].mean(): the float64 sum divided by the number of rows
ColMean(df, col) ==
    <<ColSum(df, col)[1] \div Len(df),
      RoundQuotient(ColSum(df, col)[1], ColSum(df, col)[2], Len(df))>>

\* x0 = [df['Longitude'].mean(), df['Latitude'].mean()], as held
x0_of(df) == <<ColMean(df, "lon"), ColMean(df, "lat")>>

\* bounds = [(min lon, max lon), (min lat, max lat)]
bounds_of(df) ==
    << <<ColMin(df, "lon"), ColMax(df, "lon")>>, <<ColMin(df, "lat"), ColMax(df, "lat")>> >>

\* a held coordinate clipped to the bounds (typed values of the column)
Clip(v, b) ==
    IF Below(v, Typed(b[1])) THEN Typed(b[1])
    ELSE IF Below(Typed(b[2]), v) THEN Typed(b[2]) ELSE v

\* L-BFGS-B keeps its iterates within the bounds: the start and every point
\* a step leads to are projected onto the box
Project_none(h, bnds) == h
Project(h, bnds) == <<Clip(h[1], bnds[1]), Clip(h[2], bnds[2])>>

\* the typed points of the box
BoxPoints(bnds) ==
    {OnLines(x, y) : x \in {c \in Lines : bnds[1][1] <= At(c) /\ At(c) <= bnds[1][2]},
                     y \in {c \in Lines : bnds[2][1] <= At(c) /\ At(c) <= bnds[2][2]}}

\* The points a step of the search can lead to before the projection, to
\* grid resolution: the typed points of the box and of the grid lines next
\* to it.
LinesAround(b) == {c \in Lines : b[1] <= At(c + 1) /\ At(c) <= b[2] + At(1)}
TrialPoints(bnds) ==
    {OnLines(x, y) : x \in LinesAround(bnds[1]), y \in LinesAround(bnds[2])}

\* The objective at x0 + step*d for the step 1e-8 of the finite-difference
\* gradient, d a unit step along one axis: feasibility just beside the held
\* point h.  The step is far above the float64 rounding of a coordinate and
\* far below a unit: along the stepped axis the coordinate in units
\* decides, along the other axis the held coordinate does.
NearIn(c, dc, lo, hi) ==
    IF dc > 0 THEN lo <= c[1] /\ c[1] < hi
    ELSE IF dc < 0 THEN lo < c[1] /\ c[1] <= hi
    ELSE Below(Typed(lo), c) /\ Below(c, Typed(hi))

NearPolygonContains(poly, h, d) ==
    /\ ~poly.empty
    /\ NearIn(h[1], d[1], poly.x1, poly.x2)
    /\ NearIn(h[2], d[2], poly.y1, poly.y2)

NearRespectBuffer(g, h, d) ==
    \A i \in DOMAIN g.sensitive_coords :
        LET b == g.sensitive_coords[i]
            p == GridOf(h)
            d2 == Dist2(p, b)
            bb == g.buffer_distance * g.buffer_distance
        IN  ~(d2 < bb \/ (d2 = bb /\ (b[1] - p[1]) * d[1] + (b[2] - p[2]) * d[2] > 0))

FeasibleNear(g, h, d) ==
    /\ NearPolygonContains(g.sri_lanka_polygon, h, d)
    /\ ~NearPolygonContains(g.exclusion_area, h, d)
    /\ NearRespectBuffer(g, h, d)

FreeAxes(bnds) ==
    (IF bnds[1][1] < bnds[1][2] THEN { <<1, 0>> } ELSE {})
        \cup (IF bnds[2][1] < bnds[2][2] THEN { <<0, 1>> } ELSE {})

Offset(row, p) == <<row.lon - p[1], row.lat - p[2]>>
Cross(u, v) == u[1] * v[2] - u[2] * v[1]
Dot(u, v) == u[1] * v[1] + u[2] * v[2]
Sgn(n) == IF n > 0 THEN 1 ELSE IF n < 0 THEN -1 ELSE 0

\* on the line through x0 along ref: the trips of the sites on the side of
\* x0 that ref points to, minus the trips of the sites on the other side
RECURSIVE SignedTrips(_, _, _)
SignedTrips(df, x0, ref) ==
    IF df = <<>> THEN 0
    ELSE (IF Cross(Offset(Head(df), x0), ref) = 0
          THEN Trips(Head(df)) * Sgn(Dot(Offset(Head(df), x0), ref))
          ELSE 0)
             + SignedTrips(Tail(df), x0, ref)

\* The slope of the cost at x0 is cost_per_km times the sum of the unit
\* vectors to the sites, weighted by their trips.  It vanishes when no site
\* that has trips is at x0 and, on every line through x0 and such a site,
\* there are as many trips on one side of x0 as on the other.  x0 is the
\* point in units of the start: its float64 rounding moves the slope by far
\* less than the tolerance.
SitesBalanced(df, x0) ==
    LET loaded == {i \in DOMAIN df : Trips(df[i]) > 0}
    IN  /\ loaded # {}
        /\ \A i \in loaded : SiteOf(df[i]) # x0
        /\ \A i \in loaded : SignedTrips(df, x0, Offset(df[i], x0)) = 0

\* What is left of the forward difference along axis d where the slope
\* vanishes: half the step times the curvature.  The sum of
\* trips * (offset across d)^2 / distance^3 over the sites, in millionths
\* per unit.
RECURSIVE Curvature(_, _, _)
Curvature(df, x0, d) ==
    IF df = <<>> THEN 0
    ELSE LET row == Head(df)
             across == Cross(Offset(row, x0), d)
             rest == Curvature(Tail(df), x0, d)
         IN  IF Trips(row) = 0 \/ SiteOf(row) = x0 THEN rest
             ELSE (Trips(row) * ((across * across * 1000) \div Dist2(SiteOf(row), x0))
                      * 1000 * SqrtScale) \div Distance(SiteOf(row), x0) + rest

\* The curvature sum at which the forward difference (step 1e-8 degree)
\* reaches the projected-gradient tolerance 1e-5 of L-BFGS-B, millionths:
\* 1e-5 / ((1e-8 / 2) * (cost_per_km / 1000) * UnitsPerDegree)
GradientTolerance ==
    ((2 * 1000 * 1000 * 1000) \div cost_per_km) \div (UnitsPerDegree \div 1000)

\* the forward-difference gradient of the objective at the held point x0
\* is within the tolerance, so the search ends at x0: the objective is the
\* penalty at x0 and beside it, or zero at x0 and beside it (no trips), or
\* the sites balance at x0.  Feasibility is that of the float64 x0.
GradientZero(g, df, x0, bnds) ==
    \/ /\ ~is_feasible(g, x0)
       /\ \A d \in FreeAxes(bnds) : ~FeasibleNear(g, x0, d)
    \/ /\ is_feasible(g, x0)
       /\ \A d \in FreeAxes(bnds) : FeasibleNear(g, x0, d)
       /\ \/ \A i \in DOMAIN df : Trips(df[i]) = 0
          \/ /\ SitesBalanced(df, GridOf(x0))
             /\ \A d \in FreeAxes(bnds) :
                   Curvature(df, GridOf(x0), d) <= GradientTolerance

\* minimize(objective, x0, method="L-BFGS-B", bounds=bounds): the results
\* (x, success) the bounded local search can return; x is a held point.
\*  - every variable fixed by equal bounds: that point, success;
\*  - zero gradient at the start (x0 projected onto the box): the start,
\*    success;
\*  - otherwise the search moves: it fails (abnormal line search), or ends
\*    at the projection of a point a step leads to, feasible and no worse
\*    than the start.
minimize(g, df, x0, bnds) ==
    LET start == Project(x0, bnds)
        f0 == objective(g, df, start)
        ends == {Project(Point(q), bnds) : q \in TrialPoints(bnds)}
    IN  IF FreeAxes(bnds) = {}
        THEN {[x |-> Point(<<bnds[1][1], bnds[2][1]>>), success |-> TRUE]}
        ELSE IF GradientZero(g, df, start, bnds)
        THEN {[x |-> start, success |-> TRUE]}
        ELSE {[x |-> start, success |-> FALSE]}
             \cup {[x |-> v, success |-> TRUE] :
                     v \in {w \in ends :
                              /\ CostLess(objective(g, df, w), Penalty)
                              /\ CostLeq(objective(g, df, w), f0)}}

\* lines 140-143 for the form input df under geometry g: x0, bounds, the
\* start of the search and a result of minimize
Runs(g, zone_data) ==
    LET df == DataFrame(zone_data)
    IN  {[zone_data |-> zone_data, df |-> df, x0 |-> x0_of(df), bounds |-> bounds_of(df),
          start |-> Project(x0_of(df), bounds_of(df)), out |-> o] :
            o \in minimize(g, df, x0_of(df), bounds_of(df))}

\* the runs of every form input, for every geometry
MinimizeTable ==
    Stored([g \in GeoConfigs |-> UNION {Runs(g, zone_data) : zone_data \in ZoneInputs}])

(* ----------------------------- page script ---------------------------- *)
NotLoaded == [loaded |-> FALSE]
EmptySession == [k \in {} |-> 0]

With(ss, key, v) == [k \in DOMAIN ss \cup {key} |-> IF k = key THEN v ELSE ss[k]]
Without(ss, keys) == [k \in DOMAIN ss \ keys |-> ss[k]]

\* st.session_state.pop("result", None); st.session_state.pop("map", None)
ClearPrevious_none(ss) == ss
ClearPrevious_result(ss) == Without(ss, {"result"})
ClearPrevious(ss) == Without(ss, {"result", "map"})

\* st.session_state["result"] = {"x": opt_x, "y": opt_y, "zones": df}
StoreResult(ss, out, df) ==
    With(ss, "result", [x |-> out.x[1], y |-> out.x[2], zones |-> df])

\* if run_opt and zone_data: ... if result.success: ... else: st.error(...)
OptimizationLogic(ss, run_opt, zone_data, out) ==
    IF run_opt /\ zone_data # <<>>
    THEN IF out.success
         THEN StoreResult(ClearPrevious(ss), out, DataFrame(zone_data))
         ELSE ClearPrevious(ss)
    ELSE ss

\* [df['Latitude'].mean(), df['Longitude'].mean()] for every form input
MapCentre ==
    Stored([df \in {DataFrame(zone_data) : zone_data \in ZoneInputs}
               |-> <<ColMean(df, "lat"), ColMean(df, "lon")>>])

\* folium.Map centred on the mean site, one marker per zone (its popup shows
\* the zone's name and waste), one for the hub; folium locations are
\* [latitude, longitude]
BuildMap(res) ==
    [location |-> MapCentre[res.zones],
     markers |-> [i \in DOMAIN res.zones |->
                    [location |-> <<res.zones[i].lat, res.zones[i].lon>>,
                     name |-> res.zones[i].name,
                     waste |-> res.zones[i].waste]],
     hub |-> <<res.y, res.x>>]

\* with right_col: if "result" in st.session_state: ... if "map" not in ...
OutputSection(ss) ==
    IF "result" \in DOMAIN ss /\ "map" \notin DOMAIN ss
    THEN With(ss, "map", BuildMap(ss["result"]))
    ELSE ss

NoRun == [zones |-> <<>>, x0 |-> Point(<<0, 0>>), bounds |-> << <<0, 0>>, <<0, 0>> >>,
          start |-> Point(<<0, 0>>), x |-> Point(<<0, 0>>), success |-> FALSE]
\* kind of execution, whether the button was pressed, whether a result was
\* stored when it began, whether feasibility was evaluated, and the run
History(kind, clicked, had_result, evaluated, run) ==
    [kind |-> kind, clicked |-> clicked, had_result |-> had_result,
     evaluated |-> evaluated, run |-> run]
\* the sites, x0, the bounds, the start of the search and its result
RunRecord(run) ==
    [zones |-> run.df, x0 |-> run.x0, bounds |-> run.bounds,
     start |-> run.start, x |-> run.out.x, success |-> run.out.success]

\* no geometry at all: every point is infeasible
NoGeometry ==
    [sri_lanka_polygon |-> EmptyGeom, exclusion_area |-> EmptyGeom,
     exclusion_points |-> {}, sensitive_coords |-> <<>>,
     buffer_distance |-> At(buffer_distance)]

\* except Exception as e: st.error(...); st.stop(): the rest of the script
\* does not execute.  The result is the session state and the history.
AfterLoadError_continue(ss, run_opt, zone_data) ==
    LET run == CHOOSE r \in Runs(NoGeometry, zone_data) : TRUE
    IN  [ss |-> OutputSection(OptimizationLogic(ss, run_opt, zone_data, run.out)),
         last |-> IF run_opt
                  THEN History("run", TRUE, "result" \in DOMAIN ss, TRUE, RunRecord(run))
                  ELSE History("idle", FALSE, "result" \in DOMAIN ss, FALSE, NoRun)]
AfterLoadError(ss, run_opt, zone_data) ==
    [ss |-> ss, last |-> History("stopped", run_opt, "result" \in DOMAIN ss, FALSE, NoRun)]

NoProbe == [stage |-> "none"]

Init ==
    /\ geo_cache = NotLoaded
    /\ session_state = EmptySession
    /\ last = History("init", FALSE, FALSE, FALSE, NoRun)
    /\ probe = NoProbe

\* a script execution in which load_geographic_data raises
LoadFails ==
    /\ geo_cache = NotLoaded
    /\ \E run_opt \in BOOLEAN, zone_data \in ZoneInputs :
         LET r == AfterLoadError(session_state, run_opt, zone_data)
         IN  /\ session_state' = r.ss
             /\ last' = r.last
    /\ UNCHANGED <<geo_cache, probe>>

\* the first script execution in which load_geographic_data returns: the
\* value is cached for the process; the button has not been rendered before
LoadSucceeds ==
    /\ geo_cache = NotLoaded
    /\ \E files \in GeoFiles : geo_cache' = load_geographic_data(files)
    /\ session_state' = OutputSection(OptimizationLogic(session_state, FALSE, <<>>, NoRun))
    /\ last' = History("idle", FALSE, "result" \in DOMAIN session_state, FALSE, NoRun)
    /\ UNCHANGED probe

\* a script execution without a click on Run Optimization
Rerun ==
    /\ geo_cache # NotLoaded
    /\ session_state' = OutputSection(OptimizationLogic(session_state, FALSE, <<>>, NoRun))
    /\ last' = History("idle", FALSE, "result" \in DOMAIN session_state, FALSE, NoRun)
    /\ UNCHANGED <<geo_cache, probe>>

\* a script execution started by a click on Run Optimization
RunOptimization ==
    /\ geo_cache # NotLoaded
    /\ \E run \in MinimizeTable[geo_cache] :
         /\ session_state' =
                OutputSection(OptimizationLogic(session_state, TRUE, run.zone_data, run.out))
         /\ last' = History("run", TRUE, "result" \in DOMAIN session_state, TRUE,
                             RunRecord(run))
    /\ UNCHANGED <<geo_cache, probe>>

Next == LoadFails \/ LoadSucceeds \/ Rerun \/ RunOptimization

Spec == Init /\ [][Next]_vars

(* ------------------- evaluation of the helper functions --------------- *)
\* One evaluation of is_feasible and objective under a loaded geometry: the
\* inputs are drawn in the initial state, Evaluate applies the functions.
ObjectiveInputs ==
    {[stage |-> "input", kind |-> "objective", p |-> p, q |-> p,
      zones |-> DataFrame(zone_data)] : p \in Grid, zone_data \in ZoneInputs}
CompareInputs ==
    {[stage |-> "input", kind |-> "compare", p |-> p, q |-> q,
      zones |-> DataFrame(<<row>>)] :
        p \in Grid, q \in Grid, row \in SiteRows}
\* the evaluation at the start of a search: the point is the float64 x0
StartInputs ==
    {[stage |-> "input", kind |-> "start", p |-> GridOf(x0_of(zone_data)),
      q |-> GridOf(x0_of(zone_data)), zones |-> DataFrame(zone_data)] :
        zone_data \in SiteInputs}

\* the point (x, y) the helpers are called with
HeldOf(in) == IF in.kind = "start" THEN x0_of(in.zones) ELSE Point(in.p)
\* the second point of a comparison
SecondOf(in) == IF in.kind = "start" THEN x0_of(in.zones) ELSE Point(in.q)

Evaluation(g, in) ==
    [stage |-> "done", kind |-> in.kind, p |-> in.p, q |-> in.q, zones |-> in.zones,
     inside |-> inside_sri_lanka(g, HeldOf(in)),
     outside |-> outside_exclusion(g, HeldOf(in)),
     buffer |-> respect_buffer(g, HeldOf(in)),
     feasible |-> is_feasible(g, HeldOf(in)),
     feasible_q |-> is_feasible(g, SecondOf(in)),
     cost |-> objective(g, in.zones, HeldOf(in)),
     cost_q |-> objective(g, in.zones, SecondOf(in))]

EvalInit ==
    /\ geo_cache \in GeoConfigs
    /\ session_state = EmptySession
    /\ last = History("idle", FALSE, FALSE, FALSE, NoRun)
    /\ probe \in ObjectiveInputs \cup CompareInputs \cup StartInputs

Evaluate ==
    /\ probe.stage = "input"
    /\ probe' = Evaluation(geo_cache, probe)
    /\ UNCHANGED <<geo_cache, session_state, last>>

EvalNext == Evaluate

EvalSpec == EvalInit /\ [][EvalNext]_vars

(* ------------------------------- claims ------------------------------- *)
ResultStored == "result" \in DOMAIN session_state
MapCached == "map" \in DOMAIN session_state
RunDone == last.kind = "run"
EvalDone == probe.stage = "done"

OnBoundary(poly, p) ==
    /\ ~poly.empty
    /\ poly.x1 <= p[1] /\ p[1] <= poly.x2 /\ poly.y1 <= p[2] /\ p[2] <= poly.y2
    /\ (p[1] = poly.x1 \/ p[1] = poly.x2 \/ p[2] = poly.y1 \/ p[2] = poly.y2)

\* the held point h is exactly on the boundary of the polygon
HeldOnBoundary(poly, h) ==
    /\ ~poly.empty
    /\ ~Below(h[1], Typed(poly.x1)) /\ ~Below(Typed(poly.x2), h[1])
    /\ ~Below(h[2], Typed(poly.y1)) /\ ~Below(Typed(poly.y2), h[2])
    /\ (h[1] = Typed(poly.x1) \/ h[1] = Typed(poly.x2)
            \/ h[2] = Typed(poly.y1) \/ h[2] = Typed(poly.y2))

StrictlyOutside(poly, p) ==
    poly.empty \/ p[1] < poly.x1 \/ p[1] > poly.x2 \/ p[2] < poly.y1 \/ p[2] > poly.y2

StrictlyInside(poly, p) ==
    ~poly.empty /\ ~StrictlyOutside(poly, p) /\ ~OnBoundary(poly, p)

\* the distance from the held point h to some buffer point is below the
\* buffer distance
TooClose(g, h) ==
    \E i \in DOMAIN g.sensitive_coords : DistanceVsBuffer(g, h, g.sensitive_coords[i]) < 0

\* the held point lies in the box spanned by the sites of df
InBoxOf(df, h) ==
    /\ \E i \in DOMAIN df : ~Below(h[1], Typed(df[i].lon))
    /\ \E i \in DOMAIN df : ~Below(Typed(df[i].lon), h[1])
    /\ \E i \in DOMAIN df : ~Below(h[2], Typed(df[i].lat))
    /\ \E i \in DOMAIN df : ~Below(Typed(df[i].lat), h[2])

SiteBox(df) == BoxPoints(bounds_of(df))

\* every point of the box of df is infeasible: the typed points, and the
\* points just beside them inside the box
BoxAllInfeasible(g, df) ==
    \A pt \in SiteBox(df) :
        /\ ~is_feasible(g, Point(pt))
        /\ \A d \in { <<1, 0>>, <<0, 1>>, <<-1, 0>>, <<0, -1>> } :
              <<pt[1] + At(d[1]), pt[2] + At(d[2])>> \in SiteBox(df)
                  => ~FeasibleNear(g, Point(pt), d)

\* the points of the box where the cost without constraints is least
UnconstrainedOptima(df) ==
    {pt \in SiteBox(df) : \A other \in SiteBox(df) : TotalCost(pt, df) <= TotalCost(other, df)}

\* the point the search returns without constraints: the start when it is
\* already optimal (zero gradient), otherwise a point of least cost; with no
\* trips at all the cost is zero everywhere and no point is singled out
UnconstrainedReturn(df) ==
    IF \A i \in DOMAIN df : Trips(df[i]) = 0 THEN {}
    ELSE IF GridOf(x0_of(df)) \in UnconstrainedOptima(df) THEN {GridOf(x0_of(df))}
    ELSE UnconstrainedOptima(df)

\* C1 (as claimed): when every point of the search box is infeasible, the
\* run fails and no result is stored for it.
C1_InfeasibleBoxFails ==
    (RunDone /\ BoxAllInfeasible(geo_cache, last.run.zones)) => ~ResultStored

\* C2 (as claimed): when a buffer point lies exactly at the unconstrained
\* optimum, a successful run returns a different point, at least the buffer
\* distance away from that buffer point.
C2_BufferAtOptimumAvoided ==
    (RunDone /\ last.run.success /\ ResultStored) =>
        \A i \in DOMAIN geo_cache.sensitive_coords :
            LET b == geo_cache.sensitive_coords[i]
                loc == <<session_state["result"].x, session_state["result"].y>>
            IN  b \in UnconstrainedReturn(last.run.zones) =>
                    (loc # Point(b) /\ DistanceVsBuffer(geo_cache, loc, b) >= 0)

\* C3 (as claimed): a point exactly on the boundary of the allowed region
\* passes the inside check.
C3_BoundaryInclusive ==
    (EvalDone /\ HeldOnBoundary(geo_cache.sri_lanka_polygon, HeldOf(probe))) => probe.inside

\* C3 (amended): the inside check is boundary-exclusive: a point exactly on
\* the boundary of the allowed region fails the inside check and is infeasible.
C3_BoundaryExclusive ==
    (EvalDone /\ HeldOnBoundary(geo_cache.sri_lanka_polygon, HeldOf(probe))) =>
        (~probe.inside /\ ~probe.feasible)

C3_Witness ==
    /\ EvalDone
    /\ HeldOnBoundary(geo_cache.sri_lanka_polygon, HeldOf(probe))
    /\ probe.outside /\ probe.buffer

\* C4: is_feasible is false strictly outside the allowed region, strictly
\* inside the excluded region, and strictly closer than the buffer distance
\* to a buffer point; a distance equal to the buffer distance, an empty
\* excluded region and an empty buffer point set do not reject.  Distances
\* are those between the float64 coordinates the function is given.
C4_FeasibilityRejections ==
    EvalDone =>
        /\ StrictlyOutside(geo_cache.sri_lanka_polygon, probe.p) => ~probe.feasible
        /\ StrictlyInside(geo_cache.exclusion_area, probe.p) => ~probe.feasible
        /\ TooClose(geo_cache, HeldOf(probe)) => ~probe.feasible
        /\ ~TooClose(geo_cache, HeldOf(probe)) => probe.buffer
        /\ geo_cache.sensitive_coords = <<>> => probe.buffer
        /\ (geo_cache.exclusion_area.empty /\ geo_cache.exclusion_points = {}) => probe.outside

C4_Witness ==
    /\ EvalDone
    /\ probe.feasible
    /\ \E i \in DOMAIN geo_cache.sensitive_coords :
          DistanceVsBuffer(geo_cache, HeldOf(probe), geo_cache.sensitive_coords[i]) = 0

C6_CostMonotoneInDistance ==
    (/\ EvalDone /\ probe.kind = "compare"
     /\ probe.feasible /\ probe.feasible_q
     /\ Dist2(probe.p, SiteOf(probe.zones[1])) < Dist2(probe.q, SiteOf(probe.zones[1])))
        => CostLeq(probe.cost, probe.cost_q)

C6_Witness ==
    /\ EvalDone /\ probe.kind = "compare"
    /\ probe.feasible /\ probe.feasible_q
    /\ Dist2(probe.p, SiteOf(probe.zones[1])) < Dist2(probe.q, SiteOf(probe.zones[1]))
    /\ probe.zones[1].waste > 0
    /\ CostLess(probe.cost, probe.cost_q)

\* C7: after a run the stored result is that run's own location with that
\* run's sites, or absent when the run failed; nothing of an earlier result
\* remains.
C7_ResultReplacedByRun ==
    RunDone =>
        IF last.run.success
        THEN /\ ResultStored
             /\ session_state["result"] =
                   [x |-> last.run.x[1], y |-> last.run.x[2], zones |-> last.run.zones]
        ELSE ~ResultStored

C7_Witness ==
    RunDone /\ last.had_result /\ ~last.run.success /\ ~ResultStored

\* C8: while the geometry has not been loaded, no run is executed, no
\* feasibility is evaluated and the session holds no result and no map,
\* whether or not Run Optimization was pressed.
C8_LoadFailureAbortsStartup ==
    geo_cache = NotLoaded =>
        /\ session_state = EmptySession
        /\ last.kind \in {"init", "stopped"}
        /\ ~last.evaluated

C8_Witness ==
    geo_cache = NotLoaded /\ last.kind = "stopped" /\ last.clicked

\* the held coordinate c is at most one float64 spacing outside [lo, hi]
NearRange(c, lo, hi) ==
    /\ ~Below(<<c[1], c[2] + Ulp(lo)>>, Typed(lo))
    /\ ~Below(Typed(hi), <<c[1], c[2] - Ulp(hi)>>)

C10_MapMatchesResult ==
    MapCached =>
        /\ ResultStored
        /\ LET res == session_state["result"]
               m == session_state["map"]
           IN  /\ m.hub = <<res.y, res.x>>
               /\ DOMAIN m.markers = DOMAIN res.zones
               /\ \A i \in DOMAIN res.zones :
                     /\ m.markers[i].location = <<res.zones[i].lat, res.zones[i].lon>>
                     /\ m.markers[i].name = res.zones[i].name
                     /\ m.markers[i].waste = res.zones[i].waste

C10_Witness ==
    RunDone /\ last.had_result /\ last.run.success /\ MapCached

====
